---- MODULE Spec2Model ----
(***************************************************************************)
(* Producer / bounded queue / Consumer pipeline of                         *)
(* assignment2/producer_consumer.py, with the orchestration of main() and  *)
(* of TestProducerConsumer.run_test_case.                                  *)
(*                                                                         *)
(* Python values are modelled as tagged records so that None, the integer  *)
(* 0 and the index 0 stay distinct, as they are for Python's ==.           *)
(* A fault of the queue is an input of the run: the ordinal of the put     *)
(* call (resp. get call) that raises, or no ordinal at all.                *)
(***************************************************************************)
EXTENDS Integers, Sequences, FiniteSets, TLC

MaxN == 4
Values == {0, 1}

---------------------------------------------------------------------------
(* Python values *)
None == [t |-> "None", v |-> 0]
Num(n) == [t |-> "num", v |-> n]

(* the sentinel of Producer.run, line 65 *)
SentinelZero == <<Num(0), Num(0)>>
Sentinel == <<None, None>>

(* the tuple (i, item) put by Producer.run, line 61; i is 0-based *)
ItemShifted(src, i) == <<Num(i + 1), src[i + 1]>>
ItemReversed(src, i) == <<Num(i), src[Len(src) - i]>>
Item(src, i) == <<Num(i), src[i + 1]>>

(* the end of enumerate(self.source), line 60 *)
LoopDoneEarly(src, i) == i >= Len(src) - 1
LoopDone(src, i) == i >= Len(src)

(* i_item == (None, None), line 99 *)
IsSentinelFalsy(e) == e[1] = None \/ e[2] = None \/ e[2] = Num(0)
IsSentinel(e) == e = Sentinel

(* max(1, size // 2), line 127 *)
Capacity(n) == IF n \div 2 >= 1 THEN n \div 2 ELSE 1

(* queue.Queue: put blocks while the queue is full (maxsize > 0), line 61 *)
FullOffByOne(queue, c) == c > 0 /\ Len(queue) > c
FullTooSoon(queue, c) == c > 0 /\ Len(queue) >= c - 1
Full(queue, c) == c > 0 /\ Len(queue) >= c

(* queue.Queue: get blocks while the queue is empty, line 97 *)
EmptyTooSoon(queue) == Len(queue) <= 1
Empty(queue) == Len(queue) = 0

(* queue.Queue.put appends at the tail *)
QPutFront(queue, e) == <<e>> \o queue
QPutOverwrite(queue, e) ==
    IF Len(queue) > 0 THEN [queue EXCEPT ![Len(queue)] = e]
                      ELSE Append(queue, e)
QPut(queue, e) == Append(queue, e)

(* queue.Queue.get removes the oldest element *)
QGetLifo(queue) ==
    [elem |-> queue[Len(queue)], rest |-> SubSeq(queue, 1, Len(queue) - 1)]
QGet(queue) == [elem |-> Head(queue), rest |-> Tail(queue)]

(* self.destination[i] = item, line 104: list index i, negative allowed *)
IndexOK(dst, i) == i >= -Len(dst) /\ i < Len(dst)
SlotFromEnd(dst, i) == Len(dst) - i
Slot(dst, i) == IF i >= 0 THEN i + 1 ELSE Len(dst) + i + 1
WriteFirstOnly(dst, i, item) == [dst EXCEPT ![1] = item]
Write(dst, i, item) == [dst EXCEPT ![Slot(dst, i)] = item]

(* source == destination, line 147 *)
ValidateAlways(src, dst) == TRUE
Validate(src, dst) == src = dst

Terminal == {"done", "failed"}

---------------------------------------------------------------------------
VARIABLES
    source,        \* the list handed to Producer
    destination,   \* the list handed to Consumer, [None] * N
    q,             \* the elements held by the queue, oldest first
    cap,           \* maxsize of the queue
    unfinished,    \* queue.unfinished_tasks (put +1, task_done -1)
    ppc, pidx,     \* Producer: position and loop index i
    cpc, cur,      \* Consumer: position and i_item
    opc,           \* main / run_test_case: position
    pFaults,       \* ordinals of the put calls that raise
    cFaults,       \* ordinals of the get calls that raise
    inserted,      \* history: every element put, in order
    removed,       \* history: every element got, in order
    wlog           \* history: every index i used in destination[i] = item

vars == <<source, destination, q, cap, unfinished, ppc, pidx, cpc, cur, opc,
          pFaults, cFaults, inserted, removed, wlog>>

N == Len(source)

Sources == UNION {[1..n -> {Num(v) : v \in Values}] : n \in 0..MaxN}

FaultPlans(n) == {{}} \cup {{k} : k \in 0..n}

Init ==
    /\ source \in Sources
    /\ destination = [k \in 1..Len(source) |-> None]
    /\ q = <<>>
    /\ cap = Capacity(Len(source))
    /\ unfinished = 0
    /\ ppc = "idle" /\ pidx = 0
    /\ cpc = "idle" /\ cur = Sentinel
    /\ opc = "init"
    /\ pFaults \in FaultPlans(Len(source))
    /\ cFaults \in FaultPlans(Len(source))
    /\ inserted = <<>> /\ removed = <<>> /\ wlog = <<>>

---------------------------------------------------------------------------
(* main, lines 137-138: t.start() for the Producer, then for the Consumer *)
StartProducer ==
    /\ opc = "init"
    /\ opc' = "startedP"
    /\ ppc' = "producing"
    /\ UNCHANGED <<source, destination, q, cap, unfinished, pidx, cpc, cur,
                   pFaults, cFaults, inserted, removed, wlog>>

StartConsumer ==
    /\ opc = "startedP"
    /\ opc' = "joinP"
    /\ cpc' = "waiting"
    /\ UNCHANGED <<source, destination, q, cap, unfinished, ppc, pidx, cur,
                   pFaults, cFaults, inserted, removed, wlog>>

(* main, lines 141-142: t.join() returns once the thread's run has ended *)
JoinProducer ==
    /\ opc = "joinP"
    /\ ppc \in Terminal
    /\ opc' = "joinC"
    /\ UNCHANGED <<source, destination, q, cap, unfinished, ppc, pidx, cpc,
                   cur, pFaults, cFaults, inserted, removed, wlog>>

JoinConsumerNoWait ==
    /\ opc = "joinC"
    /\ opc' = "validate"
    /\ UNCHANGED <<source, destination, q, cap, unfinished, ppc, pidx, cpc,
                   cur, pFaults, cFaults, inserted, removed, wlog>>
JoinConsumer ==
    /\ opc = "joinC"
    /\ cpc \in Terminal
    /\ opc' = "validate"
    /\ UNCHANGED <<source, destination, q, cap, unfinished, ppc, pidx, cpc,
                   cur, pFaults, cFaults, inserted, removed, wlog>>

(* main, lines 147-148: the assert, then the success message *)
ValidateStep ==
    /\ opc = "validate"
    /\ opc' = IF Validate(source, destination) THEN "success" ELSE "failure"
    /\ UNCHANGED <<source, destination, q, cap, unfinished, ppc, pidx, cpc,
                   cur, pFaults, cFaults, inserted, removed, wlog>>

---------------------------------------------------------------------------
(* Producer.run, lines 60-61: one iteration, self.q.put((i, item)) *)
PPutWritesDestination ==
    /\ ppc = "producing"
    /\ ~LoopDone(source, pidx)
    /\ pidx \notin pFaults
    /\ ~Full(q, cap)
    /\ q' = QPut(q, Item(source, pidx))
    /\ inserted' = Append(inserted, Item(source, pidx))
    /\ unfinished' = unfinished + 1
    /\ pidx' = pidx + 1
    /\ destination' = [destination EXCEPT ![pidx + 1] = source[pidx + 1]]
    /\ UNCHANGED <<source, cap, ppc, cpc, cur, opc,
                   pFaults, cFaults, removed, wlog>>
PPut ==
    /\ ppc = "producing"
    /\ ~LoopDone(source, pidx)
    /\ pidx \notin pFaults
    /\ ~Full(q, cap)
    /\ q' = QPut(q, Item(source, pidx))
    /\ inserted' = Append(inserted, Item(source, pidx))
    /\ unfinished' = unfinished + 1
    /\ pidx' = pidx + 1
    /\ UNCHANGED <<source, destination, cap, ppc, cpc, cur, opc,
                   pFaults, cFaults, removed, wlog>>

(* Producer.run, line 60 to line 65: the source is exhausted *)
PLoopExitSkipEmpty ==
    /\ ppc = "producing"
    /\ LoopDone(source, pidx)
    /\ ppc' = IF Len(source) = 0 THEN "done" ELSE "finalizing"
    /\ UNCHANGED <<source, destination, q, cap, unfinished, pidx, cpc, cur,
                   opc, pFaults, cFaults, inserted, removed, wlog>>

PLoopExit ==
    /\ ppc = "producing"
    /\ LoopDone(source, pidx)
    /\ ppc' = "finalizing"
    /\ UNCHANGED <<source, destination, q, cap, unfinished, pidx, cpc, cur,
                   opc, pFaults, cFaults, inserted, removed, wlog>>

(* Producer.run, lines 65-66: self.q.put((None, None)) *)
PSentinel ==
    /\ ppc = "finalizing"
    /\ pidx \notin pFaults
    /\ ~Full(q, cap)
    /\ q' = QPut(q, Sentinel)
    /\ inserted' = Append(inserted, Sentinel)
    /\ unfinished' = unfinished + 1
    /\ ppc' = "done"
    /\ UNCHANGED <<source, destination, cap, pidx, cpc, cur, opc,
                   pFaults, cFaults, removed, wlog>>

(* Producer.run, lines 67-68: a put raised; the error is logged, run ends *)
PFaultWithSentinel ==
    /\ \/ ppc = "producing" /\ ~LoopDone(source, pidx)
       \/ ppc = "finalizing"
    /\ pidx \in pFaults
    /\ ppc' = "failed"
    /\ q' = QPut(q, Sentinel)
    /\ inserted' = Append(inserted, Sentinel)
    /\ UNCHANGED <<source, destination, cap, unfinished, pidx, cpc, cur,
                   opc, pFaults, cFaults, removed, wlog>>

PFault ==
    /\ \/ ppc = "producing" /\ ~LoopDone(source, pidx)
       \/ ppc = "finalizing"
    /\ pidx \in pFaults
    /\ ppc' = "failed"
    /\ UNCHANGED <<source, destination, q, cap, unfinished, pidx, cpc, cur,
                   opc, pFaults, cFaults, inserted, removed, wlog>>

---------------------------------------------------------------------------
(* Consumer.run, line 97: i_item = self.q.get() *)
CGetAfterFault ==
    /\ cpc \in {"waiting", "failed"}
    /\ Len(removed) \notin cFaults \/ cpc = "failed"
    /\ ~Empty(q)
    /\ cur' = QGet(q).elem
    /\ q' = QGet(q).rest
    /\ removed' = Append(removed, QGet(q).elem)
    /\ cpc' = "received"
    /\ UNCHANGED <<source, destination, cap, unfinished, ppc, pidx, opc,
                   pFaults, cFaults, inserted, wlog>>
CGet ==
    /\ cpc = "waiting"
    /\ Len(removed) \notin cFaults
    /\ ~Empty(q)
    /\ cur' = QGet(q).elem
    /\ q' = QGet(q).rest
    /\ removed' = Append(removed, QGet(q).elem)
    /\ cpc' = "received"
    /\ UNCHANGED <<source, destination, cap, unfinished, ppc, pidx, opc,
                   pFaults, cFaults, inserted, wlog>>

(* Consumer.run, lines 99-101 and 108: the sentinel ends the loop *)
CSentinel ==
    /\ cpc = "received"
    /\ IsSentinel(cur)
    /\ IF unfinished > 0
         THEN unfinished' = unfinished - 1 /\ cpc' = "done"
         ELSE unfinished' = unfinished /\ cpc' = "failed"
    /\ UNCHANGED <<source, destination, q, cap, ppc, pidx, cur, opc,
                   pFaults, cFaults, inserted, removed, wlog>>

(* Consumer.run, lines 103-104: unpack i_item and write the slot *)
CWrite ==
    /\ cpc = "received"
    /\ ~IsSentinel(cur)
    /\ IF cur[1].t = "num"
         THEN /\ wlog' = Append(wlog, cur[1].v)
              /\ IF IndexOK(destination, cur[1].v)
                   THEN /\ destination' = Write(destination, cur[1].v, cur[2])
                        /\ cpc' = "written"
                   ELSE /\ cpc' = "failed"
                        /\ UNCHANGED destination
         ELSE /\ cpc' = "failed"
              /\ UNCHANGED <<destination, wlog>>
    /\ UNCHANGED <<source, q, cap, unfinished, ppc, pidx, cur, opc,
                   pFaults, cFaults, inserted, removed>>

(* Consumer.run, lines 105-106: self.q.task_done() for the item written,  *)
(* a step of its own: the Producer can put between the write and it       *)
CTaskDone ==
    /\ cpc = "written"
    /\ IF unfinished > 0
         THEN unfinished' = unfinished - 1 /\ cpc' = "waiting"
         ELSE unfinished' = unfinished /\ cpc' = "failed"
    /\ UNCHANGED <<source, destination, q, cap, ppc, pidx, cur, opc,
                   pFaults, cFaults, inserted, removed, wlog>>

(* Consumer.run, lines 109-110: a get raised; the error is logged, run ends *)
CFault ==
    /\ cpc = "waiting"
    /\ Len(removed) \in cFaults
    /\ cpc' = "failed"
    /\ UNCHANGED <<source, destination, q, cap, unfinished, ppc, pidx, cur,
                   opc, pFaults, cFaults, inserted, removed, wlog>>

---------------------------------------------------------------------------
ProducerNext == PPut \/ PLoopExit \/ PSentinel \/ PFault
ConsumerNext == CGet \/ CSentinel \/ CWrite \/ CTaskDone \/ CFault
OrchestratorNext ==
    StartProducer \/ StartConsumer \/ JoinProducer \/ JoinConsumer
        \/ ValidateStep

Next == ProducerNext \/ ConsumerNext \/ OrchestratorNext

Spec == Init /\ [][Next]_vars

(* the three threads are scheduled by the operating system: each one that  *)
(* can take a step eventually takes one                                    *)
FairSpec ==
    Spec /\ WF_vars(ProducerNext) /\ WF_vars(ConsumerNext)
         /\ WF_vars(OrchestratorNext)

---------------------------------------------------------------------------
(* Producer and Consumer accept any queue.Queue: the same run with a queue *)
(* of any capacity 1..MaxCap instead of the half-size one of main          *)
MaxCap == 3

InitAnyCap ==
    /\ source \in Sources
    /\ destination = [k \in 1..Len(source) |-> None]
    /\ q = <<>>
    /\ cap \in 1..MaxCap
    /\ unfinished = 0
    /\ ppc = "idle" /\ pidx = 0
    /\ cpc = "idle" /\ cur = Sentinel
    /\ opc = "init"
    /\ pFaults \in FaultPlans(Len(source))
    /\ cFaults \in FaultPlans(Len(source))
    /\ inserted = <<>> /\ removed = <<>> /\ wlog = <<>>

SpecAnyCap == InitAnyCap /\ [][Next]_vars

---------------------------------------------------------------------------
(* Vocabulary of the properties *)
FaultFreeRun == pFaults = {} /\ cFaults = {}
BothDone == ppc = "done" /\ cpc = "done"
Joined == opc \in {"validate", "success", "failure"}
SentinelsIn(h) == {k \in 1..Len(h) : h[k] = Sentinel}
ExpectedItem(k) == <<Num(k - 1), source[k]>>

(* C1: once the Producer and the Consumer have both finished without      *)
(* fault, destination equals source element-wise: same length, and the     *)
(* same value at every position, duplicates included.                      *)
C1_DestinationEqualsSource ==
    BothDone =>
        /\ Len(destination) = Len(source)
        /\ \A k \in 1..Len(source) : destination[k] = source[k]

C1_Witness ==
    /\ BothDone
    /\ N >= 3
    /\ source[1] = source[2]
    /\ source[2] # source[3]
    /\ destination = source

(* C2: with capacity max(1, N div 2), fair scheduling and no fault, the    *)
(* Producer and the Consumer both reach Done and both joins of the         *)
(* orchestrator return.                                                    *)
C2_NoDeadlock == FaultFreeRun ~> (BothDone /\ Joined)

C2_Witness ==
    /\ FaultFreeRun
    /\ BothDone
    /\ opc = "success"
    /\ N >= 4
    /\ cap = 2

(* C3: in every reachable state the queue holds between 0 and C elements,  *)
(* with C = max(1, N div 2): C = 1 for N in 0..3, N div 2 from N = 2 on;   *)
(* 10 gives 5, 1 gives 1, 3 gives 1, 0 gives 1.                            *)
C3_ChannelBounded ==
    /\ Len(q) >= 0
    /\ Len(q) <= (IF N <= 3 THEN 1 ELSE N \div 2)
    /\ cap = (IF N <= 3 THEN 1 ELSE N \div 2)
    /\ Capacity(10) = 5 /\ Capacity(1) = 1 /\ Capacity(3) = 1
    /\ Capacity(0) = 1

C3_Witness ==
    /\ N = 4
    /\ cap = 2
    /\ Len(q) = 2
    /\ ppc = "producing"

(* C4: the Producer puts at most one sentinel, and only after the N items  *)
(* with indices 0..N-1, in that order; a Producer that reached Done has    *)
(* put exactly N items followed by exactly one sentinel.                   *)
C4_OneSentinelAfterItems ==
    /\ Cardinality(SentinelsIn(inserted)) <= 1
    /\ \A k \in SentinelsIn(inserted) :
          /\ k = N + 1
          /\ \A j \in 1..N : inserted[j] = ExpectedItem(j)
    /\ ppc = "done" =>
          /\ Len(inserted) = N + 1
          /\ inserted[N + 1] = Sentinel

C4_Witness ==
    /\ ppc = "done"
    /\ N >= 2
    /\ SentinelsIn(inserted) = {N + 1}

(* C5: the Consumer removes a sentinel only as its (N+1)-th element, after *)
(* exactly N items, and removes at most one; a Consumer that reached Done  *)
(* has removed N items and then one sentinel.                              *)
C5_SentinelObservedAfterNItems ==
    /\ Cardinality(SentinelsIn(removed)) <= 1
    /\ \A k \in SentinelsIn(removed) : k = N + 1
    /\ cpc = "done" =>
          /\ Len(removed) = N + 1
          /\ SentinelsIn(removed) = {N + 1}

C5_Witness ==
    /\ cpc = "done"
    /\ N >= 2
    /\ source[1] = Num(0)
    /\ SentinelsIn(removed) = {N + 1}

(* C6: the k-th element removed from the queue is the k-th element put,    *)
(* so the items are removed with the indices 0, 1, 2, ... without gap.     *)
C6_FifoOrder ==
    /\ Len(removed) <= Len(inserted)
    /\ \A k \in 1..Len(removed) :
          /\ removed[k] = inserted[k]
          /\ removed[k] # Sentinel => removed[k][1] = Num(k - 1)

C6_Witness ==
    /\ Len(removed) >= 3
    /\ cap = 2
    /\ Len(q) = 2
    /\ removed[3][1] = Num(2)

(* C7: every index the Consumer writes is in [0, N), no index is written   *)
(* twice, and a slot that has been written holds the source value of that  *)
(* position; the other slots are still None.                               *)
C7_SlotWrittenOnce ==
    /\ \A k \in 1..Len(wlog) :
          /\ wlog[k] \in 0..(N - 1)
          /\ \A j \in 1..Len(wlog) : j # k => wlog[j] # wlog[k]
          /\ destination[wlog[k] + 1] = source[wlog[k] + 1]
    /\ \A s \in 1..Len(destination) :
          destination[s] # None =>
              /\ \E k \in 1..Len(wlog) : wlog[k] = s - 1
              /\ destination[s] = source[s]
    /\ Len(destination) = N

C7_Witness ==
    /\ Len(wlog) = N
    /\ N >= 3
    /\ source[1] # source[2]
    /\ cpc = "waiting"

(* C8: with an empty source the capacity is 1, no item is ever put, the    *)
(* destination is the empty list, a completed run has put and removed      *)
(* exactly one sentinel, and a fault-free run does complete.               *)
C8_EmptySource ==
    /\ [](N = 0 =>
            /\ cap = 1
            /\ destination = <<>>
            /\ \A k \in 1..Len(inserted) : inserted[k] = Sentinel
            /\ Len(inserted) <= 1
            /\ Len(removed) <= 1
            /\ wlog = <<>>
            /\ BothDone =>
                  inserted = <<Sentinel>> /\ removed = <<Sentinel>>)
    /\ (N = 0 /\ FaultFreeRun) ~> (BothDone /\ opc = "success")

C8_Witness ==
    /\ N = 0
    /\ BothDone
    /\ inserted = <<Sentinel>>
    /\ removed = <<Sentinel>>
    /\ opc = "success"

(* C9, as stated: the run reports success only when no unit faulted, a     *)
(* run in which a unit faulted being reported as a failure.                *)
C9_SuccessImpliesNoFault ==
    opc = "success" => (ppc # "failed" /\ cpc # "failed")

(* C9, amended: the run reports success only when both units have          *)
(* terminated and destination equals source, and failure only when both    *)
(* have terminated and destination differs from source; a fault of a unit  *)
(* is logged and changes the report only through the destination.          *)
C9_ReportFollowsValidation ==
    /\ opc = "success" =>
          ppc \in Terminal /\ cpc \in Terminal /\ destination = source
    /\ opc = "failure" =>
          ppc \in Terminal /\ cpc \in Terminal /\ destination # source

C9_Witness ==
    /\ opc = "failure"
    /\ cpc = "failed"
    /\ ppc = "done"
    /\ N >= 2

(* C10: a Producer whose put raised terminates without a sentinel ever     *)
(* being put, so the Consumer never finishes through the sentinel: unless  *)
(* its own get raises, it drains the queue and then stays blocked on the   *)
(* empty queue forever.                                                    *)
C10_ProducerFaultNoSentinel ==
    /\ [](ppc = "failed" =>
            /\ SentinelsIn(inserted) = {}
            /\ cpc # "done"
            /\ Len(inserted) = pidx)
    /\ <>[]((ppc = "failed" /\ cpc # "failed") =>
              (cpc = "waiting" /\ q = <<>> /\ removed = inserted))

C10_Witness ==
    /\ ppc = "failed"
    /\ cFaults = {}
    /\ cpc = "waiting"
    /\ q = <<>>
    /\ Len(removed) >= 2
    /\ Len(wlog) = Len(removed)

(* C11: there is no timeout: once the Consumer has terminated by a fault   *)
(* while the Producer still has more elements to put (remaining items plus *)
(* the sentinel) than the queue has free slots, the Producer never reaches *)
(* Done and, unless its own put raises, the joins never return: it ends    *)
(* blocked on the full queue; the destination keeps what was written       *)
(* before the fault.                                                       *)
ProducerRemaining == (N - pidx) + 1
ProducerStuck ==
    /\ cpc = "failed"
    /\ ppc \in {"producing", "finalizing"}
    /\ ProducerRemaining > cap - Len(q)
ProducerBlocked ==
    /\ \/ ppc = "producing" /\ ~LoopDone(source, pidx)
       \/ ppc = "finalizing"
    /\ Full(q, cap)

C11_ConsumerFaultBlocksProducer ==
    /\ [](ProducerStuck =>
            [](ppc # "done" /\ (ppc # "failed" => ~Joined)))
    /\ <>[](ProducerStuck => (ProducerBlocked /\ opc = "joinP"))
    /\ [][cpc = "failed" =>
            (destination' = destination /\ wlog' = wlog)]_vars

C11_Witness ==
    /\ ProducerStuck
    /\ ProducerBlocked
    /\ pFaults = {}
    /\ opc = "joinP"
    /\ Len(wlog) >= 1
    /\ Len(wlog) < N
    /\ \E s \in 1..N : destination[s] = None

(* C12: source == destination is evaluated, and its outcome reported, only *)
(* in states where the Producer and the Consumer have both terminated; the *)
(* step that evaluates it is never taken while a unit runs or is blocked.  *)
C12_ValidationAfterBothTerminal ==
    /\ [](Joined => (ppc \in Terminal /\ cpc \in Terminal))
    /\ [][opc' \in {"success", "failure"} =>
            (ppc \in Terminal /\ cpc \in Terminal
             /\ ppc' = ppc /\ cpc' = cpc)]_vars

C12_Witness ==
    /\ opc = "validate"
    /\ ppc = "done"
    /\ cpc = "done"
    /\ N >= 2

(* C13: a put completes only from a state where the queue holds fewer than *)
(* C elements and a get only from a state where it holds at least one; a   *)
(* put appends its element and a get removes the oldest one, nothing else  *)
(* ever changes the queue, so no element is dropped or overwritten.        *)
PutCompleted == Len(inserted') = Len(inserted) + 1
GetCompleted == Len(removed') = Len(removed) + 1

C13_BackpressureByBlocking ==
    [][/\ PutCompleted =>
            /\ Len(q) < cap
            /\ q' = q \o <<inserted'[Len(inserted')]>>
       /\ GetCompleted =>
            /\ Len(q) > 0
            /\ removed'[Len(removed')] = q[1]
            /\ q' = SubSeq(q, 2, Len(q))
       /\ q' # q => (PutCompleted \/ GetCompleted)
       /\ (Len(q) = cap => ~PutCompleted)
       /\ (Len(q) = 0 => ~GetCompleted)]_vars

C13_Witness ==
    /\ cap = 2
    /\ Len(q) = 2
    /\ Len(removed) >= 1
    /\ Len(inserted) = Len(removed) + 2
    /\ ppc = "producing"
    /\ pidx < N

(* C14: every element the Producer puts before the sentinel is the item    *)
(* (k-1, source[k]) at position k, so no index outside [0, N) is put and   *)
(* no index is put twice; once the Producer is Done every index of [0, N)  *)
(* has been put exactly once.                                              *)
ItemPositions(i) ==
    {k \in 1..Len(inserted) :
        inserted[k] # Sentinel /\ inserted[k][1] = Num(i)}

C14_EachIndexOnce ==
    /\ \A k \in 1..Len(inserted) :
          inserted[k] # Sentinel =>
              /\ k <= N
              /\ inserted[k][1] = Num(k - 1)
              /\ inserted[k][2] = source[k]
    /\ \A i \in 0..(N - 1) : Cardinality(ItemPositions(i)) <= 1
    /\ ppc = "done" =>
          \A i \in 0..(N - 1) : Cardinality(ItemPositions(i)) = 1

C14_Witness ==
    /\ ppc = "done"
    /\ N >= 3
    /\ source[1] # source[N]
    /\ ItemPositions(N - 1) = {N}

(* C15: once the Consumer has terminated, through the sentinel or through  *)
(* a fault, it stays terminated, removes nothing more from the queue and   *)
(* writes nothing more to the destination.                                 *)
C15_ConsumerDoneAbsorbing ==
    [][(cpc \in Terminal) =>
          (/\ cpc' = cpc
           /\ removed' = removed
           /\ cur' = cur
           /\ destination' = destination
           /\ wlog' = wlog)]_vars

C15_Witness ==
    /\ cpc = "failed"
    /\ Len(q) >= 1
    /\ ppc = "done"
    /\ Len(removed) >= 1

(* C16: a step of the Producer leaves the destination unchanged, a step of *)
(* the Consumer leaves the source unchanged, and no step at all changes    *)
(* the source; the Producer changes only its own position and the queue.   *)
ProducerStepped == <<ppc, pidx, inserted>>' # <<ppc, pidx, inserted>>
ConsumerStepped == <<cpc, cur, removed, wlog>>' # <<cpc, cur, removed, wlog>>

C16_Frames ==
    [][/\ source' = source
       /\ ProducerStepped =>
            (destination' = destination /\ removed' = removed
             /\ wlog' = wlog /\ cur' = cur)
       /\ ConsumerStepped =>
            (source' = source /\ inserted' = inserted /\ pidx' = pidx)
       /\ (destination' # destination => ConsumerStepped)]_vars

C16_Witness ==
    /\ ppc = "done"
    /\ cpc = "waiting"
    /\ Len(wlog) >= 2
    /\ destination[1] = source[1]
    /\ destination[N] = None

(* C17: the sentinel (None, None) differs from every item (i, source[i]),  *)
(* the item with index 0 and the items of value 0 included; the test       *)
(* i_item == (None, None) succeeds only on the (N+1)-th element removed,   *)
(* the one the Producer put last, so the Consumer never ends early.        *)
C17_SentinelDisjointFromItems ==
    /\ \A i \in 0..(N - 1) :
          /\ Item(source, i) # Sentinel
          /\ ~IsSentinel(Item(source, i))
    /\ \A k \in 1..Len(removed) :
          IsSentinel(removed[k]) => (k = N + 1 /\ inserted[k] = <<None, None>>)
    /\ (cpc = "received" /\ IsSentinel(cur)) =>
          (Len(removed) = N + 1 /\ ppc = "done" /\ Len(wlog) = N)
    /\ cpc = "done" => (Len(wlog) = N /\ Len(removed) = N + 1)

C17_Witness ==
    /\ cpc = "received"
    /\ cur = <<Num(0), Num(0)>>
    /\ ~IsSentinel(cur)
    /\ N >= 2

(* C18: while no unit has faulted, the written slots of the destination    *)
(* are exactly the first k, k being the number of items the Consumer has   *)
(* fully processed; each holds the source value of its position, every     *)
(* later slot is still None, and the writes happened in index order.       *)
Processed ==
    Len(removed) - (IF cpc \in {"received", "done"} THEN 1 ELSE 0)

C18_DestinationPrefix ==
    (ppc # "failed" /\ cpc # "failed") =>
        /\ Len(wlog) = Processed
        /\ \A j \in 1..Len(wlog) : wlog[j] = j - 1
        /\ \A s \in 1..N :
              /\ s <= Processed => destination[s] = source[s]
              /\ s > Processed => destination[s] = None

C18_Witness ==
    /\ ppc # "failed"
    /\ cpc = "received"
    /\ Processed = 2
    /\ N >= 4
    /\ destination[2] = source[2]
    /\ destination[3] = None

(* C19: in every reachable state the elements put are the elements removed *)
(* followed by the content of the queue; the queue holds the items with    *)
(* the contiguous indices from the number removed up to the number put,    *)
(* with the sentinel, if present, last; the Producer is never more than C  *)
(* elements ahead of the Consumer.                                         *)
C19_Conservation ==
    /\ Len(inserted) = Len(removed) + Len(q)
    /\ inserted = removed \o q
    /\ \A j \in 1..Len(q) :
          /\ q[j] = Sentinel => (j = Len(q) /\ Len(removed) + j = N + 1)
          /\ q[j] # Sentinel => q[j] = ExpectedItem(Len(removed) + j)
    /\ Len(inserted) - Len(removed) <= cap

C19_Witness ==
    /\ cap = 2
    /\ Len(removed) >= 2
    /\ Len(q) = 2
    /\ q[2] = Sentinel
    /\ q[1] = ExpectedItem(N)

(* C20: for every capacity C >= 1, whatever N, while no unit has faulted   *)
(* the Producer is never blocked on a full queue while the Consumer is     *)
(* blocked on an empty queue or already Done, and the Consumer is never    *)
(* blocked on an empty queue while the Producer is already Done.           *)
ConsumerBlocked == cpc = "waiting" /\ Empty(q)

C20_CapacityIndependence ==
    /\ cap >= 1
    /\ (ppc # "failed" /\ cpc # "failed") =>
          /\ ~(ProducerBlocked /\ ConsumerBlocked)
          /\ ~(ProducerBlocked /\ cpc = "done")
          /\ ~(ConsumerBlocked /\ ppc = "done")

C20_Witness ==
    /\ cap = 3
    /\ N = 4
    /\ ProducerBlocked
    /\ cpc = "waiting"
    /\ ~ConsumerBlocked
    /\ pFaults = {} /\ cFaults = {}

====
